---- MODULE Spec2Model ----
(***************************************************************************)
(* goride: a client of the ridewithgps.com JSON API.                       *)
(*                                                                         *)
(* The model follows the latest revision of the package (RWGPS, Client,    *)
(* decodeJSON).  Every goroutine that uses the session is a caller with a  *)
(* call stack of frames; a frame is one activation of a Go function and    *)
(* moves through the places where that function reads or writes the shared *)
(* field r.authUser or blocks in http.Get.                                 *)
(*                                                                         *)
(* Conventions: a Go pointer, error or map that may be nil is a sequence   *)
(* of length 0 (nil) or 1 (the value); a string that the program only      *)
(* carries around is a TLA+ string; a response body is a record that says  *)
(* what encoding/json makes of its text.                                   *)
(***************************************************************************)
EXTENDS Integers, Sequences, FiniteSets, TLC

(***************************************************************************)
(* Bounds of the model.                                                    *)
(***************************************************************************)
\* calls a caller makes before it stops
MaxCalls == 2
\* the goroutines that share one *RWGPS
Callers == {"c1", "c2"}

VARIABLES
    authUser,     \* r.authUser: <<>> (nil) or <<User>>
    config,       \* r.config: the Config the session was built with
    client,       \* r.client: the Client, [server |-> base of the URL]
    stack,        \* per caller: its frames, the running one first
    ret,          \* per caller: what the last finished function returned
    sent,         \* per caller: the requests its current call gave http.Get
    recvd,        \* per caller: what http.Get answered them with, in order
    start,        \* per caller: r.authUser when its current call began
    op,           \* per caller: the call it is making (or made last)
    callerArgs,   \* per caller: the url.Values it owns and passes to Get
    ncalls        \* per caller: calls made so far

vars == <<authUser, config, client, stack, ret, sent, recvd, start, op, callerArgs, ncalls>>

(***************************************************************************)
(* Errors.  fmt.Errorf("ctx ...: %v", err) puts its own context in front   *)
(* of the error it wraps: an error is the sequence of contexts, outermost  *)
(* first, and nil is the empty sequence.                                   *)
(***************************************************************************)
NoErr == <<>>

Errorf(ctx, detail, cause) == <<[ctx |-> ctx, detail |-> detail]>> \o cause

IsErr(e) == Len(e) > 0

(***************************************************************************)
(* The types of the package.                                               *)
(***************************************************************************)
ZeroUser == [ID |-> 0, Name |-> "", AuthToken |-> "", Gear |-> <<>>, TotalTrips |-> 0]

ZeroRide == [ID |-> 0, Name |-> ""]

TestConfig == [Email |-> "test@example.com", Password |-> "supers3cret", KeyName |-> "test key"]

(***************************************************************************)
(* Response bodies.  name stands for the text; wf says that the text       *)
(* starts with one syntactically complete JSON object; bad holds the keys  *)
(* whose JSON value has a type the Go field cannot take; the other fields  *)
(* are the values of the keys the package reads (the zero value when the   *)
(* key is absent: encoding/json leaves the Go field at its zero value      *)
(* either way).  complete is FALSE once part of the text was lost.         *)
(***************************************************************************)
JUser(id, name, token, gear, trips) ==
    [id |-> id, name |-> name, auth_token |-> token, gear |-> gear,
     trips_included_in_totals_count |-> trips]

NoJUser == JUser(0, "", "", <<>>, 0)

Body(name, wf, bad, user, type, trip, count, results) ==
    [name |-> name, wf |-> wf, bad |-> bad, user |-> user, type |-> type,
     trip |-> trip, results_count |-> count, results |-> results, complete |-> TRUE]

\* the Go string ""
EmptyStr == Body("", FALSE, {}, NoJUser, "", [id |-> 0, name |-> ""], 0, <<>>)

NoTrip == [id |-> 0, name |-> ""]

FixtureGear == <<[id |-> 239758, name |-> "Surly"], [id |-> 255732, name |-> "TCR"]>>

\* the plain text the test server answers a rejected login with
BadAuthText == Body("401 bad auth", FALSE, {}, NoJUser, "", NoTrip, 0, <<>>)

\* testdata/current.json
CurrentJSON ==
    Body("current.json", TRUE, {}, JUser(1268590, "zigdon", "ffffff", FixtureGear, 3073),
         "", NoTrip, 0, <<>>)

\* {"user": {"id": 7, "name": "other", "auth_token": "beef1337"}}
OtherUserJSON ==
    Body("other.json", TRUE, {}, JUser(7, "other", "beef1337", <<>>, 0), "", NoTrip, 0, <<>>)

\* {"user": {"id": 1268590, "name": "zigdon"}}: a user object without a token
NoTokenJSON ==
    Body("notoken.json", TRUE, {}, JUser(1268590, "zigdon", "", <<>>, 0), "", NoTrip, 0, <<>>)

\* {"user": {"id": "x", "name": "zigdon", "auth_token": "ffffff"}}: id is a string
BadIdJSON ==
    Body("badid.json", TRUE, {"user.id"}, JUser(0, "zigdon", "ffffff", <<>>, 0),
         "", NoTrip, 0, <<>>)

\* testdata/trip.json
TripJSON ==
    Body("trip.json", TRUE, {}, NoJUser, "trip", [id |-> 94, name |-> "ride"], 0, <<>>)

\* {"type": "error", "trip": {"id": 94}}: well formed, another discriminator
ErrorTypeJSON ==
    Body("errortype.json", TRUE, {}, NoJUser, "error", [id |-> 94, name |-> ""], 0, <<>>)

\* testdata/trips0-2.json, the ids not in increasing order
TripsJSON ==
    Body("trips.json", TRUE, {}, NoJUser, "", NoTrip, 1273,
         <<[id |-> 38045212], [id |-> 37648524], [id |-> 37120067]>>)

\* {"results_count": 1273, "results": 5}: results is a number
BadResultsJSON ==
    Body("badresults.json", TRUE, {"results"}, NoJUser, "", NoTrip, 1273, <<>>)

\* {"type": 5, "trip": {"id": 94}}: well formed, the discriminator a number
BadTypeJSON ==
    Body("badtype.json", TRUE, {"type"}, NoJUser, "", [id |-> 94, name |-> ""], 0, <<>>)

Bodies ==
    {BadAuthText, CurrentJSON, OtherUserJSON, NoTokenJSON, BadIdJSON,
     TripJSON, ErrorTypeJSON, BadTypeJSON, TripsJSON, BadResultsJSON}

\* what ioutil.ReadAll has when the connection breaks before the end of the
\* body: a proper prefix of the text, which is no complete JSON value
Truncated(b) == [b EXCEPT !.wf = FALSE, !.complete = FALSE]

(***************************************************************************)
(* decodeJSON: json.NewDecoder(...).Decode(obj).  A text that is not       *)
(* a JSON object is an error and leaves obj untouched; a key whose value   *)
(* has the wrong type is skipped and reported (UnmarshalTypeError) after   *)
(* the other keys were stored; unknown keys are ignored.                   *)
(***************************************************************************)
DecodeErr(b) == Errorf("error decoding json", <<b.name>>, NoErr)

\* the gear list built back to front
DecodeGearReversed(gs) ==
    [i \in 1..Len(gs) |-> [ID |-> gs[Len(gs) + 1 - i].id, Name |-> gs[Len(gs) + 1 - i].name]]

DecodeGear(gs) == [i \in 1..Len(gs) |-> [ID |-> gs[i].id, Name |-> gs[i].name]]

\* var resStruct struct{ User User }
DecodeUser(b) ==
    IF ~b.wf THEN [User |-> ZeroUser, err |-> DecodeErr(b)]
    ELSE IF "user" \in b.bad THEN [User |-> ZeroUser, err |-> DecodeErr(b)]
    ELSE [User |-> [ID         |-> IF "user.id" \in b.bad THEN 0 ELSE b.user.id,
                    Name       |-> b.user.name,
                    AuthToken  |-> b.user.auth_token,
                    Gear       |-> DecodeGear(b.user.gear),
                    TotalTrips |-> b.user.trips_included_in_totals_count],
          err  |-> IF "user.id" \in b.bad THEN DecodeErr(b) ELSE NoErr]

\* the count taken from the length of the page
DecodeRidesCountLen(b) ==
    IF ~b.wf THEN [Count |-> 0, Rides |-> <<>>, err |-> DecodeErr(b)]
    ELSE [Count |-> Len(b.results),
          Rides |-> IF "results" \in b.bad THEN <<>>
                    ELSE [i \in 1..Len(b.results) |-> [ID |-> b.results[i].id]],
          err   |-> IF b.bad \cap {"results_count", "results"} # {}
                    THEN DecodeErr(b) ELSE NoErr]

\* var resStruct struct { Count int; Rides []*RideSlim }
DecodeRides(b) ==
    IF ~b.wf THEN [Count |-> 0, Rides |-> <<>>, err |-> DecodeErr(b)]
    ELSE [Count |-> IF "results_count" \in b.bad THEN 0 ELSE b.results_count,
          Rides |-> IF "results" \in b.bad THEN <<>>
                    ELSE [i \in 1..Len(b.results) |-> [ID |-> b.results[i].id]],
          err   |-> IF b.bad \cap {"results_count", "results"} # {}
                    THEN DecodeErr(b) ELSE NoErr]

\* var resStruct struct { Type string; Trip Ride }
DecodeRide(b) ==
    IF ~b.wf THEN [Type |-> "", Trip |-> ZeroRide, err |-> DecodeErr(b)]
    ELSE [Type |-> IF "type" \in b.bad THEN "" ELSE b.type,
          Trip |-> IF "trip" \in b.bad THEN ZeroRide
                   ELSE [ID |-> b.trip.id, Name |-> b.trip.name],
          err  |-> IF b.bad \cap {"type", "trip"} # {} THEN DecodeErr(b) ELSE NoErr]

(***************************************************************************)
(* url.Values: a map from a key to the list of its values, here a function *)
(* whose domain is the set of keys present.                                *)
(***************************************************************************)
EmptyValues == <<>>

\* Values.Add: appends to the list of the key, keeping what is there
Add(m, k, v) ==
    IF k \in DOMAIN m THEN [m EXCEPT ![k] = Append(@, v)] ELSE m @@ (k :> <<v>>)

\* url.QueryEscape on the strings that occur
QueryEscape(s) ==
    CASE s = "test key" -> "test+key"
      [] s = "test@example.com" -> "test%40example.com"
      [] OTHER -> s

\* the keys that occur, in the order sort.Strings gives them
KeyOrder == <<"apikey", "auth_token", "email", "limit", "offset", "password", "version", "x">>

RECURSIVE EncodeFrom(_, _)
EncodeFrom(m, i) ==
    IF i > Len(KeyOrder) THEN <<>>
    ELSE LET k == KeyOrder[i] IN
         (IF k \in DOMAIN m
          THEN [j \in 1..Len(m[k]) |-> <<QueryEscape(k), QueryEscape(m[k][j])>>]
          ELSE <<>>) \o EncodeFrom(m, i + 1)

\* Values.Encode: key=value pairs, sorted by key, the values of a key in order
Encode(m) == EncodeFrom(m, 1)

\* len(args) of a url.Values that may be nil
LenValues(args) == IF args = <<>> THEN 0 ELSE Cardinality(DOMAIN args[1])

(***************************************************************************)
(* The resource paths.                                                     *)
(***************************************************************************)
CurrentUserPath == <<"/users/current.json">>

RidesPath(user) == <<"/users/", ToString(user), "/trips.json">>

RidePath(id) == <<"/trips/", ToString(id), ".json">>

(***************************************************************************)
(* Client.Get.                                                             *)
(***************************************************************************)
\* the "?" is put behind the path whatever the parameters
ClientURIAlwaysQuery(server, base, args) ==
    [path  |-> IF server # "" THEN <<server>> \o base ELSE base,
     query |-> <<"?">> \o (IF args = <<>> THEN <<>> ELSE Encode(args[1]))]

\* the uri handed to http.Get
ClientURI(server, base, args) ==
    [path  |-> IF server # "" THEN <<server>> \o base ELSE base,
     query |-> IF LenValues(args) > 0 THEN <<"?">> \o Encode(args[1]) ELSE <<>>]

Request(server, base, args) ==
    [base |-> base, args |-> args, uri |-> ClientURI(server, base, args)]

\* What http.Get and the read of the body can do: no response and an error;
\* a response and an error (the redirect policy fails); a response with a
\* status; on 200 the body is read whole or the read breaks off.
HTTPResult(resp, code, status, err, body, readOK) ==
    [resp |-> resp, StatusCode |-> code, Status |-> status, err |-> err,
     body |-> body, readOK |-> readOK]

HTTPOutcomes ==
    {HTTPResult(FALSE, 0, "", "connection refused", EmptyStr, TRUE),
     HTTPResult(TRUE, 302, "302 Found", "stopped after 10 redirects", EmptyStr, TRUE),
     HTTPResult(TRUE, 404, "404 Not Found", "", BadAuthText, TRUE),
     HTTPResult(TRUE, 401, "401 Unauthorized", "", BadAuthText, TRUE)}
    \cup {HTTPResult(TRUE, 200, "200 OK", "", b, ok) : b \in Bodies, ok \in BOOLEAN}

(***************************************************************************)
(* The server of the tests (rwgpsHandler with defaultAuth), with one        *)
(* difference: it accepts every token it hands out, and it hands out one    *)
(* of two.  A current-user request is accepted with the email and password  *)
(* of the account or with one of the tokens; the other paths are served     *)
(* from the static table, whatever the parameters.                          *)
(***************************************************************************)
\* current.json with the other token the server accepts
RenewedJSON == [CurrentJSON EXCEPT !.name = "renewed.json", !.user.auth_token = "beef1337"]

ServerUsers == {CurrentJSON, RenewedJSON}

\* the text behind "/path"
Something == Body("something", FALSE, {}, NoJUser, "", NoTrip, 0, <<>>)

NotFoundText == Body("404 Not found", FALSE, {}, NoJUser, "", NoTrip, 0, <<>>)

\* url.Values.Get: the first value of the key, or ""
ValuesGet(args, k) ==
    IF args # <<>> /\ k \in DOMAIN args[1] /\ args[1][k] # <<>> THEN args[1][k][1] ELSE ""

\* the bodies the server may answer a current-user request with
DefaultAuth(args) ==
    IF \E u \in ServerUsers : ValuesGet(args, "auth_token") = u.user.auth_token
    THEN {u \in ServerUsers : ValuesGet(args, "auth_token") = u.user.auth_token}
    ELSE IF ValuesGet(args, "email") = TestConfig.Email /\ ValuesGet(args, "password") = TestConfig.Password
         THEN ServerUsers
         ELSE {BadAuthText}

Static(base) ==
    IF base = <<"/path">> THEN <<Something>>
    ELSE IF base = RidePath(94) THEN <<TripJSON>>
    ELSE IF base = RidesPath(1) THEN <<TripsJSON>>
    ELSE <<>>

\* what http.Get gives for a request this server answers
ServeHTTP(req) ==
    LET bodies == IF Static(req.base) # <<>> THEN {Static(req.base)[1]}
                  ELSE IF req.base = CurrentUserPath THEN DefaultAuth(req.args)
                  ELSE {NotFoundText}
    IN  {HTTPResult(TRUE, 200, "200 OK", "", b, TRUE) : b \in bodies}

\* the (string, error) Client.Get returns for what http.Get gave
ClientGetResult(base, o) ==
    IF o.err # "" \/ o.StatusCode # 200
    THEN IF o.resp
         THEN [res |-> EmptyStr,
               err |-> Errorf("error in GET", base \o <<o.Status, IF o.err = "" THEN "<nil>" ELSE o.err>>, NoErr)]
         ELSE [res |-> EmptyStr, err |-> Errorf("error in GET", base \o <<o.err>>, NoErr)]
    ELSE [res |-> IF o.readOK THEN o.body ELSE Truncated(o.body), err |-> NoErr]

(***************************************************************************)
(* The session.                                                            *)
(***************************************************************************)
\* the token test the wrong way round
NeedsLoginInverted(u) == u = <<>> \/ u[1].AuthToken # ""

\* only the nil test: an identity with an empty token passes
NeedsLoginNilOnly(u) == u = <<>>

\* r.authUser == nil || r.authUser.AuthToken == ""
NeedsLogin(u) == u = <<>> \/ u[1].AuthToken = ""

\* the url.Values GetCurrentUser builds to log in
LoginArgs(cfg) ==
    ("email" :> <<cfg.Email>>) @@ ("password" :> <<cfg.Password>>)
    @@ ("apikey" :> <<cfg.KeyName>>) @@ ("version" :> <<"2">>)

\* Values.Set in place of Values.Add: the caller's values are replaced
GetArgsSet(args, cfg, token) ==
    LET a0 == IF args = <<>> THEN EmptyValues ELSE args[1]
        fixed == ("apikey" :> <<cfg.KeyName>>) @@ ("version" :> <<"2">>)
                 @@ ("auth_token" :> <<token>>)
    IN  fixed @@ a0

\* the url.Values Get hands to Client.Get: args, made if nil, with the three
\* fixed parameters added
GetArgs(args, cfg, token) ==
    LET a0 == IF args = <<>> THEN EmptyValues ELSE args[1]
        a1 == Add(a0, "apikey", cfg.KeyName)
        a2 == Add(a1, "version", "2")
    IN  Add(a2, "auth_token", token)

\* a negative offset or limit is sent as 0
RidesArgsClamped(offset, limit) ==
    ("offset" :> <<ToString(IF offset < 0 THEN 0 ELSE offset)>>)
    @@ ("limit" :> <<ToString(IF limit < 0 THEN 0 ELSE limit)>>)

\* the url.Values GetRides builds
RidesArgs(offset, limit) ==
    ("offset" :> <<ToString(offset)>>) @@ ("limit" :> <<ToString(limit)>>)

(***************************************************************************)
(* What the functions return.  One record for all of them: res is the      *)
(* string of Get and Client.Get, user the *User of GetCurrentUser, rides   *)
(* and count the results of GetRides, ride the *Ride of GetRide, err the   *)
(* error; panic is set when the goroutine died of a nil dereference.       *)
(***************************************************************************)
Ret(res, user, rides, count, ride, err) ==
    [res |-> res, user |-> user, rides |-> rides, count |-> count, ride |-> ride,
     err |-> err, panic |-> FALSE]

ZeroRet == Ret(EmptyStr, <<>>, <<>>, 0, <<>>, NoErr)

StringRet(res, err) == Ret(res, <<>>, <<>>, 0, <<>>, err)

ErrorRet(err) == Ret(EmptyStr, <<>>, <<>>, 0, <<>>, err)

PanicRet == [ZeroRet EXCEPT !.panic = TRUE]

\* GetCurrentUser, from the (res, err) of its request on
GetCurrentUserResult(r) ==
    IF IsErr(r.err)
    THEN Ret(EmptyStr, <<>>, <<>>, 0, <<>>, Errorf("error getting current user", <<>>, r.err))
    ELSE LET d == DecodeUser(r.res) IN Ret(EmptyStr, <<d.User>>, <<>>, 0, <<>>, d.err)

\* Get, from the error of Auth on
GetAuthFailed(r) == StringRet(EmptyStr, Errorf("can't auth", <<>>, r.err))

\* Auth, from the (u, err) of GetCurrentUser on: the error it returns
AuthResult(r) ==
    IF IsErr(r.err) THEN ErrorRet(Errorf("can't log in", <<>>, r.err)) ELSE ErrorRet(NoErr)

\* the user is stored before the error is looked at
AuthStoreAlways(u, r) == r.user

\* the identity is never stored
AuthStoreNever(u, r) == u

\* Auth: r.authUser after it
AuthStore(u, r) == IF IsErr(r.err) THEN u ELSE r.user

\* GetRides, from the (res, err) of Get on
GetRidesResult(user, offset, limit, r) ==
    IF IsErr(r.err)
    THEN Ret(EmptyStr, <<>>, <<>>, 0, <<>>,
             Errorf("error getting rides", <<ToString(offset), ToString(limit), ToString(user)>>, r.err))
    ELSE LET d == DecodeRides(r.res) IN Ret(EmptyStr, <<>>, d.Rides, d.Count, <<>>, d.err)

\* the discriminator is not looked at
GetRideResultNoCheck(id, r) ==
    IF IsErr(r.err)
    THEN Ret(EmptyStr, <<>>, <<>>, 0, <<>>, Errorf("error getting ride id", <<ToString(id)>>, r.err))
    ELSE LET d == DecodeRide(r.res) IN
         IF IsErr(d.err) THEN Ret(EmptyStr, <<>>, <<>>, 0, <<>>, d.err)
         ELSE Ret(EmptyStr, <<>>, <<>>, 0, <<d.Trip>>, NoErr)

\* the discriminator is looked at before the error of the decoder
GetRideResultCheckFirst(id, r) ==
    IF IsErr(r.err)
    THEN Ret(EmptyStr, <<>>, <<>>, 0, <<>>, Errorf("error getting ride id", <<ToString(id)>>, r.err))
    ELSE LET d == DecodeRide(r.res) IN
         IF d.Type # "trip"
         THEN Ret(EmptyStr, <<>>, <<>>, 0, <<>>, Errorf("unexpected result type", <<d.Type>>, NoErr))
         ELSE IF IsErr(d.err) THEN Ret(EmptyStr, <<>>, <<>>, 0, <<>>, d.err)
         ELSE Ret(EmptyStr, <<>>, <<>>, 0, <<d.Trip>>, NoErr)

\* GetRide, from the (res, err) of Get on
GetRideResult(id, r) ==
    IF IsErr(r.err)
    THEN Ret(EmptyStr, <<>>, <<>>, 0, <<>>, Errorf("error getting ride id", <<ToString(id)>>, r.err))
    ELSE LET d == DecodeRide(r.res) IN
         IF IsErr(d.err) THEN Ret(EmptyStr, <<>>, <<>>, 0, <<>>, d.err)
         ELSE IF d.Type # "trip"
         THEN Ret(EmptyStr, <<>>, <<>>, 0, <<>>, Errorf("unexpected result type", <<d.Type>>, NoErr))
         ELSE Ret(EmptyStr, <<>>, <<>>, 0, <<d.Trip>>, NoErr)

(***************************************************************************)
(* Frames and calls.                                                       *)
(***************************************************************************)
\* an activation of fn: base and args are the path and url.Values it was
\* given, own says that args is the map the caller owns, n its integers
Frame(fn, base, args, own, n) ==
    [fn |-> fn, pc |-> "entry", base |-> base, args |-> args, own |-> own, n |-> n]

NoOp == [name |-> "none", base |-> <<>>, args |-> <<>>, n |-> <<>>]

Running(p) == stack[p] # <<>>

Done(p) == stack[p] = <<>> /\ op[p].name # "none"

At(p, fn, pc) == Running(p) /\ stack[p][1].fn = fn /\ stack[p][1].pc = pc

\* the running function calls f and goes on at pc when f has returned
CallFrom(p, pc, f) ==
    stack' = [stack EXCEPT ![p] = <<f, [@[1] EXCEPT !.pc = pc]>> \o Tail(@)]

Goto(p, pc) == stack' = [stack EXCEPT ![p] = <<[@[1] EXCEPT !.pc = pc]>> \o Tail(@)]

\* the running function returns v
Return(p, v) ==
    /\ stack' = [stack EXCEPT ![p] = Tail(@)]
    /\ ret' = [ret EXCEPT ![p] = v]

\* the values the callers pass
CallerMaps == {EmptyValues, ("x" :> <<"1">>) @@ ("auth_token" :> <<"mine">>)}

\* user, offset, limit
RidesInputs == {<<1, 0, 2147483647>>, <<1, 1, -1>>}

RideIds == {1, 94}

Paths == {CurrentUserPath, <<"/path">>}

\* the top-level calls: the frame, and the map the caller owns afterwards
Calls(p) ==
    {[f |-> Frame("Auth", <<>>, <<>>, FALSE, <<>>), m |-> callerArgs[p]],
     [f |-> Frame("GetCurrentUser", <<>>, <<>>, FALSE, <<>>), m |-> callerArgs[p]]}
    \cup {[f |-> Frame("GetRide", <<>>, <<>>, FALSE, <<id>>), m |-> callerArgs[p]] : id \in RideIds}
    \cup {[f |-> Frame("GetRides", <<>>, <<>>, FALSE, n), m |-> callerArgs[p]] : n \in RidesInputs}
    \cup {[f |-> Frame(fn, b, <<>>, FALSE, <<>>), m |-> callerArgs[p]] :
            fn \in {"Get", "ClientGet"}, b \in Paths}
    \cup {[f |-> Frame(fn, b, <<m>>, TRUE, <<>>), m |-> m] :
            fn \in {"Get", "ClientGet"}, b \in Paths, m \in CallerMaps \cup {callerArgs[p]}}

\* A caller starts one of the calls cs.  The records of the calls that
\* have returned are dropped: their results have been looked at.
Start(p, cs) ==
    /\ ~Running(p)
    /\ ncalls[p] < MaxCalls
    /\ \E c \in cs :
        /\ stack' = [stack EXCEPT ![p] = <<c.f>>]
        /\ op' = [q \in Callers |->
                    IF q = p THEN [name |-> c.f.fn, base |-> c.f.base, args |-> c.f.args, n |-> c.f.n]
                    ELSE IF Running(q) THEN op[q] ELSE NoOp]
        /\ callerArgs' = [callerArgs EXCEPT ![p] = c.m]
    /\ ret' = [q \in Callers |-> IF q # p /\ Running(q) THEN ret[q] ELSE ZeroRet]
    /\ sent' = [q \in Callers |-> IF q # p /\ Running(q) THEN sent[q] ELSE <<>>]
    /\ recvd' = [q \in Callers |-> IF q # p /\ Running(q) THEN recvd[q] ELSE <<>>]
    /\ start' = [q \in Callers |-> IF q = p THEN authUser ELSE IF Running(q) THEN start[q] ELSE <<>>]
    /\ ncalls' = [ncalls EXCEPT ![p] = @ + 1]
    /\ UNCHANGED <<authUser, config, client>>

Call(p) == Start(p, Calls(p))

\* sequential use: one goroutine, one call at a time
SeqCall(p) == p = "c1" /\ Call(p)

(***************************************************************************)
(* Client.Get                                                              *)
(***************************************************************************)
\* builds the uri and calls http.Get
ClientGetSend(p) ==
    /\ At(p, "ClientGet", "entry")
    /\ sent' = [sent EXCEPT ![p] = Append(@, Request(client.server, stack[p][1].base, stack[p][1].args))]
    /\ Goto(p, "wait")
    /\ UNCHANGED <<authUser, config, client, ret, recvd, start, op, callerArgs, ncalls>>

\* http.Get returns; the status is checked and the body read
ClientGetRecv(p) ==
    /\ At(p, "ClientGet", "wait")
    /\ \E o \in HTTPOutcomes :
        /\ recvd' = [recvd EXCEPT ![p] = Append(@, o)]
        /\ LET r == ClientGetResult(stack[p][1].base, o) IN Return(p, StringRet(r.res, r.err))
    /\ UNCHANGED <<authUser, config, client, sent, start, op, callerArgs, ncalls>>

\* http.Get returns what the server of the tests answered
ClientGetServed(p) ==
    /\ At(p, "ClientGet", "wait")
    /\ \E o \in ServeHTTP(sent[p][Len(sent[p])]) :
        /\ recvd' = [recvd EXCEPT ![p] = Append(@, o)]
        /\ LET r == ClientGetResult(stack[p][1].base, o) IN Return(p, StringRet(r.res, r.err))
    /\ UNCHANGED <<authUser, config, client, sent, start, op, callerArgs, ncalls>>

\* http.Get returns one of the answers that the login tells apart: a
\* status that is not 200, a text that is no JSON, a user with a token and
\* a user without one
RaceOutcomes ==
    {HTTPResult(TRUE, 401, "401 Unauthorized", "", BadAuthText, TRUE)}
    \cup {HTTPResult(TRUE, 200, "200 OK", "", b, TRUE) : b \in {BadAuthText, CurrentJSON, NoTokenJSON}}

ClientGetRace(p) ==
    /\ At(p, "ClientGet", "wait")
    /\ \E o \in RaceOutcomes :
        /\ recvd' = [recvd EXCEPT ![p] = Append(@, o)]
        /\ LET r == ClientGetResult(stack[p][1].base, o) IN Return(p, StringRet(r.res, r.err))
    /\ UNCHANGED <<authUser, config, client, sent, start, op, callerArgs, ncalls>>

(***************************************************************************)
(* RWGPS.GetCurrentUser                                                    *)
(***************************************************************************)
\* the credential form whatever the session holds
GetCurrentUserRequestAlwaysLogin(u, cfg) ==
    Frame("ClientGet", CurrentUserPath, <<LoginArgs(cfg)>>, FALSE, <<>>)

\* the request GetCurrentUser makes when it found the session in state u
GetCurrentUserRequest(u, cfg) ==
    IF NeedsLogin(u)
    THEN Frame("ClientGet", CurrentUserPath, <<LoginArgs(cfg)>>, FALSE, <<>>)
    ELSE Frame("Get", CurrentUserPath, <<>>, FALSE, <<>>)

GetCurrentUserEntry(p) ==
    /\ At(p, "GetCurrentUser", "entry")
    /\ CallFrom(p, "ret", GetCurrentUserRequest(authUser, config))
    /\ UNCHANGED <<authUser, config, client, ret, sent, recvd, start, op, callerArgs, ncalls>>

\* the user that was read is kept as the identity of the session
GetCurrentUserReturnCaching(p) ==
    /\ At(p, "GetCurrentUser", "ret")
    /\ authUser' = GetCurrentUserResult(ret[p]).user
    /\ Return(p, GetCurrentUserResult(ret[p]))
    /\ UNCHANGED <<config, client, sent, recvd, start, op, callerArgs, ncalls>>

GetCurrentUserReturn(p) ==
    /\ At(p, "GetCurrentUser", "ret")
    /\ Return(p, GetCurrentUserResult(ret[p]))
    /\ UNCHANGED <<authUser, config, client, sent, recvd, start, op, callerArgs, ncalls>>

(***************************************************************************)
(* RWGPS.Auth                                                              *)
(***************************************************************************)
AuthEntry(p) ==
    /\ At(p, "Auth", "entry")
    /\ CallFrom(p, "ret", Frame("GetCurrentUser", <<>>, <<>>, FALSE, <<>>))
    /\ UNCHANGED <<authUser, config, client, ret, sent, recvd, start, op, callerArgs, ncalls>>

\* the password is wiped once it was used
AuthReturnWipesPassword(p) ==
    /\ At(p, "Auth", "ret")
    /\ authUser' = AuthStore(authUser, ret[p])
    /\ config' = [config EXCEPT !.Password = ""]
    /\ Return(p, AuthResult(ret[p]))
    /\ UNCHANGED <<client, sent, recvd, start, op, callerArgs, ncalls>>

AuthReturn(p) ==
    /\ At(p, "Auth", "ret")
    /\ authUser' = AuthStore(authUser, ret[p])
    /\ Return(p, AuthResult(ret[p]))
    /\ UNCHANGED <<config, client, sent, recvd, start, op, callerArgs, ncalls>>

(***************************************************************************)
(* RWGPS.Get                                                               *)
(***************************************************************************)
\* the check of the session: log in first, or go on to the request
GetEntry(p) ==
    /\ At(p, "Get", "entry")
    /\ IF NeedsLogin(authUser)
       THEN CallFrom(p, "auth", Frame("Auth", <<>>, <<>>, FALSE, <<>>))
       ELSE Goto(p, "args")
    /\ UNCHANGED <<authUser, config, client, ret, sent, recvd, start, op, callerArgs, ncalls>>

\* the error of Auth is dropped
GetAfterAuthIgnore(p) ==
    /\ At(p, "Get", "auth")
    /\ Goto(p, "args")
    /\ UNCHANGED <<authUser, config, client, ret, sent, recvd, start, op, callerArgs, ncalls>>

\* a failed Auth is tried again
GetAfterAuthRetry(p) ==
    /\ At(p, "Get", "auth")
    /\ IF IsErr(ret[p].err)
       THEN CallFrom(p, "auth", Frame("Auth", <<>>, <<>>, FALSE, <<>>))
       ELSE Goto(p, "args")
    /\ UNCHANGED <<authUser, config, client, ret, sent, recvd, start, op, callerArgs, ncalls>>

\* Auth has returned
GetAfterAuth(p) ==
    /\ At(p, "Get", "auth")
    /\ IF IsErr(ret[p].err)
       THEN Return(p, GetAuthFailed(ret[p]))
       ELSE Goto(p, "args") /\ UNCHANGED ret
    /\ UNCHANGED <<authUser, config, client, sent, recvd, start, op, callerArgs, ncalls>>

\* the parameters are added to a copy: the caller's map stays as it was
GetSendCopies(p) ==
    /\ At(p, "Get", "args")
    /\ IF authUser = <<>>
       THEN /\ stack' = [stack EXCEPT ![p] = <<>>]
            /\ ret' = [ret EXCEPT ![p] = PanicRet]
       ELSE LET a == GetArgs(stack[p][1].args, config, authUser[1].AuthToken) IN
            /\ CallFrom(p, "ret", Frame("ClientGet", stack[p][1].base, <<a>>, FALSE, <<>>))
            /\ UNCHANGED ret
    /\ UNCHANGED <<authUser, config, client, sent, recvd, start, op, callerArgs, ncalls>>

\* the parameters are added to args (the caller's map, when it gave one) and
\* Client.Get is called; reading the token of a nil r.authUser ends the goroutine
GetSend(p) ==
    /\ At(p, "Get", "args")
    /\ IF authUser = <<>>
       THEN /\ stack' = [stack EXCEPT ![p] = <<>>]
            /\ ret' = [ret EXCEPT ![p] = PanicRet]
            /\ UNCHANGED callerArgs
       ELSE LET a == GetArgs(stack[p][1].args, config, authUser[1].AuthToken) IN
            /\ CallFrom(p, "ret", Frame("ClientGet", stack[p][1].base, <<a>>, FALSE, <<>>))
            /\ callerArgs' = IF stack[p][1].own THEN [callerArgs EXCEPT ![p] = a] ELSE callerArgs
            /\ UNCHANGED ret
    /\ UNCHANGED <<authUser, config, client, sent, recvd, start, op, ncalls>>

\* a failed request drops the identity, so that the next call logs in again
GetReturnDropsSession(p) ==
    /\ At(p, "Get", "ret")
    /\ authUser' = IF IsErr(ret[p].err) THEN <<>> ELSE authUser
    /\ Return(p, StringRet(ret[p].res, ret[p].err))
    /\ UNCHANGED <<config, client, sent, recvd, start, op, callerArgs, ncalls>>

\* return r.client.Get(method, args)
GetReturn(p) ==
    /\ At(p, "Get", "ret")
    /\ Return(p, StringRet(ret[p].res, ret[p].err))
    /\ UNCHANGED <<authUser, config, client, sent, recvd, start, op, callerArgs, ncalls>>

(***************************************************************************)
(* RWGPS.GetRides and RWGPS.GetRide                                        *)
(***************************************************************************)
GetRidesEntry(p) ==
    /\ At(p, "GetRides", "entry")
    /\ LET n == stack[p][1].n IN
       CallFrom(p, "ret", Frame("Get", RidesPath(n[1]), <<RidesArgs(n[2], n[3])>>, FALSE, <<>>))
    /\ UNCHANGED <<authUser, config, client, ret, sent, recvd, start, op, callerArgs, ncalls>>

GetRidesReturn(p) ==
    /\ At(p, "GetRides", "ret")
    /\ LET n == stack[p][1].n IN Return(p, GetRidesResult(n[1], n[2], n[3], ret[p]))
    /\ UNCHANGED <<authUser, config, client, sent, recvd, start, op, callerArgs, ncalls>>

GetRideEntry(p) ==
    /\ At(p, "GetRide", "entry")
    /\ CallFrom(p, "ret", Frame("Get", RidePath(stack[p][1].n[1]), <<>>, FALSE, <<>>))
    /\ UNCHANGED <<authUser, config, client, ret, sent, recvd, start, op, callerArgs, ncalls>>

GetRideReturn(p) ==
    /\ At(p, "GetRide", "ret")
    /\ Return(p, GetRideResult(stack[p][1].n[1], ret[p]))
    /\ UNCHANGED <<authUser, config, client, sent, recvd, start, op, callerArgs, ncalls>>

(***************************************************************************)
(* The specification.                                                      *)
(***************************************************************************)
\* a session as testObj builds it (no identity), or with the token a test
\* presets; the password right or wrong; the server a URL or empty
Init ==
    /\ authUser \in {<<>>, <<[ZeroUser EXCEPT !.AuthToken = "beef1337"]>>}
    /\ config \in {TestConfig, [TestConfig EXCEPT !.Password = "12345"]}
    /\ client \in {[server |-> "http://127.0.0.1"], [server |-> ""]}
    /\ stack = [p \in Callers |-> <<>>]
    /\ ret = [p \in Callers |-> ZeroRet]
    /\ sent = [p \in Callers |-> <<>>]
    /\ recvd = [p \in Callers |-> <<>>]
    /\ start = [p \in Callers |-> <<>>]
    /\ op = [p \in Callers |-> NoOp]
    /\ callerArgs = [p \in Callers |-> EmptyValues]
    /\ ncalls = [p \in Callers |-> 0]

Step(p) ==
    \/ ClientGetSend(p)
    \/ ClientGetRecv(p)
    \/ GetCurrentUserEntry(p)
    \/ GetCurrentUserReturn(p)
    \/ AuthEntry(p)
    \/ AuthReturn(p)
    \/ GetEntry(p)
    \/ GetAfterAuth(p)
    \/ GetSend(p)
    \/ GetReturn(p)
    \/ GetRidesEntry(p)
    \/ GetRidesReturn(p)
    \/ GetRideEntry(p)
    \/ GetRideReturn(p)

Next == \E p \in Callers : SeqCall(p) \/ Step(p)

Spec == Init /\ [][Next]_vars

(***************************************************************************)
(* Concurrent use: every caller is a goroutine of its own on the one       *)
(* session, the steps of their calls interleave, and the server of the     *)
(* tests answers.  Nothing in the package makes a goroutine wait for       *)
(* another, and http.Get returns once the server has answered, so a call   *)
(* that can take a step takes it in the end.                               *)
(***************************************************************************)
InitConcurrent ==
    /\ authUser \in {<<>>, <<ZeroUser>>}
    /\ config = TestConfig
    /\ client = [server |-> "http://127.0.0.1"]
    /\ stack = [p \in Callers |-> <<>>]
    /\ ret = [p \in Callers |-> ZeroRet]
    /\ sent = [p \in Callers |-> <<>>]
    /\ recvd = [p \in Callers |-> <<>>]
    /\ start = [p \in Callers |-> <<>>]
    /\ op = [p \in Callers |-> NoOp]
    /\ callerArgs = [p \in Callers |-> EmptyValues]
    /\ ncalls = [p \in Callers |-> 0]

\* the calls that go through RWGPS.Get
ConcurrentCalls(p) ==
    {[f |-> Frame("Get", <<"/path">>, <<>>, FALSE, <<>>), m |-> callerArgs[p]],
     [f |-> Frame("GetRide", <<>>, <<>>, FALSE, <<94>>), m |-> callerArgs[p]],
     [f |-> Frame("GetRides", <<>>, <<>>, FALSE, <<1, 0, 2>>), m |-> callerArgs[p]]}

ConcurrentCall(p) == Start(p, ConcurrentCalls(p))

StepConcurrent(p) ==
    \/ ClientGetSend(p)
    \/ ClientGetServed(p)
    \/ GetCurrentUserEntry(p)
    \/ GetCurrentUserReturn(p)
    \/ AuthEntry(p)
    \/ AuthReturn(p)
    \/ GetEntry(p)
    \/ GetAfterAuth(p)
    \/ GetSend(p)
    \/ GetReturn(p)
    \/ GetRidesEntry(p)
    \/ GetRidesReturn(p)
    \/ GetRideEntry(p)
    \/ GetRideReturn(p)

NextConcurrent == \E p \in Callers : ConcurrentCall(p) \/ StepConcurrent(p)

SpecConcurrent ==
    /\ InitConcurrent
    /\ [][NextConcurrent]_vars
    /\ \A p \in Callers : WF_vars(StepConcurrent(p))

(***************************************************************************)
(* Concurrent Auth and Get calls on the one session, the server answering  *)
(* as it likes.  r.authUser is a pointer, one machine word: a goroutine     *)
(* that reads it while another writes it gets the old or the new pointer.   *)
(***************************************************************************)
InitRace ==
    /\ authUser = <<>>
    /\ config = TestConfig
    /\ client = [server |-> "http://127.0.0.1"]
    /\ stack = [p \in Callers |-> <<>>]
    /\ ret = [p \in Callers |-> ZeroRet]
    /\ sent = [p \in Callers |-> <<>>]
    /\ recvd = [p \in Callers |-> <<>>]
    /\ start = [p \in Callers |-> <<>>]
    /\ op = [p \in Callers |-> NoOp]
    /\ callerArgs = [p \in Callers |-> EmptyValues]
    /\ ncalls = [p \in Callers |-> 0]

RaceCalls(p) ==
    {[f |-> Frame("Auth", <<>>, <<>>, FALSE, <<>>), m |-> callerArgs[p]],
     [f |-> Frame("Get", <<"/path">>, <<>>, FALSE, <<>>), m |-> callerArgs[p]]}

RaceCall(p) == Start(p, RaceCalls(p))

StepRace(p) ==
    \/ ClientGetSend(p)
    \/ ClientGetRace(p)
    \/ GetCurrentUserEntry(p)
    \/ GetCurrentUserReturn(p)
    \/ AuthEntry(p)
    \/ AuthReturn(p)
    \/ GetEntry(p)
    \/ GetAfterAuth(p)
    \/ GetSend(p)
    \/ GetReturn(p)

NextRace == \E p \in Callers : RaceCall(p) \/ StepRace(p)

SpecRace == InitRace /\ [][NextRace]_vars

(***************************************************************************)
(* Vocabulary of the properties.                                           *)
(***************************************************************************)
\* the two states of the session
Unauthenticated(u) == u = <<>> \/ u[1].AuthToken = ""

Authenticated(u) == u # <<>> /\ u[1].AuthToken # ""

\* a login request: the credential form of the current-user request
IsLogin(req) ==
    /\ req.base = CurrentUserPath
    /\ req.args # <<>>
    /\ {"email", "password"} \subseteq DOMAIN req.args[1]

LoginCount(s) == Cardinality({i \in 1..Len(s) : IsLogin(s[i])})

\* http.Get failed, or the status is not 200
TransportFailed(o) == o.err # "" \/ o.StatusCode # 200

\* the body arrived whole and is a JSON object whose keys ks have usable values
Decodes(o, ks) == o.readOK /\ o.body.wf /\ o.body.bad \cap ks = {}

\* the server rejects a login: no 200, or a body that is no user object
LoginRejected(o) == TransportFailed(o) \/ ~Decodes(o, {"user", "user.id"})

\* the calls that go through RWGPS.Get
GetOps == {"Get", "GetRides", "GetRide"}

\* the call of caller p has returned, and every request has its answer
Finished(p, names) == Done(p) /\ op[p].name \in names /\ Len(recvd[p]) = Len(sent[p])

\* the parameters the caller of RWGPS.Get supplied
Supplied(p) ==
    IF op[p].name = "GetRides" THEN RidesArgs(op[p].n[2], op[p].n[3])
    ELSE IF op[p].args = <<>> THEN EmptyValues ELSE op[p].args[1]

FixedKeys == {"apikey", "version", "auth_token"}

FixedValue(k) ==
    CASE k = "apikey" -> config.KeyName
      [] k = "version" -> "2"
      [] k = "auth_token" -> authUser[1].AuthToken

(***************************************************************************)
(* The properties.                                                         *)
(***************************************************************************)
\* C1: in sequential use a call that goes through RWGPS.Get sends exactly one
\* login request when the session was Unauthenticated as the call began, and
\* none when it was Authenticated.
C1_OneLoginWhenUnauthenticated ==
    \A p \in Callers :
        /\ Running(p) /\ op[p].name \in GetOps => LoginCount(sent[p]) <= 1
        /\ Finished(p, GetOps) =>
              LoginCount(sent[p]) = IF Unauthenticated(start[p]) THEN 1 ELSE 0

C1_Witness ==
    \E p \in Callers :
        /\ Finished(p, {"Get"})
        /\ Unauthenticated(start[p])
        /\ Len(sent[p]) = 2
        /\ LoginCount(sent[p]) = 1
        /\ ~IsErr(ret[p].err)

\* C2: whenever RWGPS.Auth returns nil, the stored identity is non-nil and has
\* a non-empty AuthToken.
C2_AuthNilMeansAuthenticated ==
    \A p \in Callers :
        Finished(p, {"Auth"}) /\ ~IsErr(ret[p].err) => Authenticated(authUser)

\* C3: Auth on an Unauthenticated session whose login the server rejects
\* returns an error and leaves the stored identity as it was, Unauthenticated.
C3_RejectedLoginLeavesSession ==
    \A p \in Callers :
        Finished(p, {"Auth"}) /\ Unauthenticated(start[p]) /\ LoginRejected(recvd[p][1]) =>
            /\ IsErr(ret[p].err)
            /\ authUser = start[p]
            /\ Unauthenticated(authUser)

C3_Witness ==
    \E p \in Callers :
        /\ Finished(p, {"Auth"})
        /\ start[p] = <<>>
        /\ recvd[p][1].body = BadAuthText /\ recvd[p][1].StatusCode = 200
        /\ IsErr(ret[p].err)
        /\ authUser = <<>>

\* C4: when Get is called on an Unauthenticated session and the login fails,
\* Get returns an error that wraps the login failure ("can't auth" around
\* "can't log in") and no request for the resource path is sent.
C4_FailedLoginSendsNoResourceRequest ==
    \A p \in Callers :
        Finished(p, {"Get"}) /\ Unauthenticated(start[p]) /\ LoginRejected(recvd[p][1]) =>
            /\ ~ret[p].panic
            /\ Len(ret[p].err) >= 3
            /\ ret[p].err[1].ctx = "can't auth"
            /\ ret[p].err[2].ctx = "can't log in"
            /\ ret[p].res = EmptyStr
            /\ Len(sent[p]) = 1 /\ IsLogin(sent[p][1])

C4_Witness ==
    \E p \in Callers :
        /\ Finished(p, {"Get"})
        /\ Unauthenticated(start[p])
        /\ recvd[p][1].StatusCode = 401
        /\ ret[p].err[1].ctx = "can't auth"
        /\ Len(sent[p]) = 1

\* C5: no operation retries: one call of Auth or GetCurrentUser (or Client.Get)
\* makes exactly one transport request, one call of Get, GetRides or GetRide at
\* most two: at most one login, then at most one resource request.
C5_NoRetries ==
    \A p \in Callers :
        /\ Len(sent[p]) <= 2
        /\ Finished(p, {"Auth", "GetCurrentUser", "ClientGet"}) => Len(sent[p]) = 1
        /\ op[p].name \in GetOps =>
              /\ LoginCount(sent[p]) <= 1
              /\ Len(sent[p]) - LoginCount(sent[p]) <= 1
              /\ Len(sent[p]) = 2 => IsLogin(sent[p][1])

C5_Witness ==
    \E p \in Callers :
        /\ Finished(p, {"GetRide"})
        /\ Len(sent[p]) = 2
        /\ TransportFailed(recvd[p][2])
        /\ IsErr(ret[p].err)

\* C6: the resource request of Get carries every value the caller supplied,
\* in the caller's order, and after them apikey = the key name, version = "2"
\* and auth_token = the stored token; a caller's value under one of these
\* three names is kept, with the fixed value behind it.
C6_FixedParametersAppended ==
    \A p \in Callers :
        Finished(p, {"Get", "GetRides"}) /\ ~IsLogin(sent[p][Len(sent[p])]) =>
            LET a == sent[p][Len(sent[p])].args[1]
                c == Supplied(p)
            IN  /\ DOMAIN a = DOMAIN c \cup FixedKeys
                /\ \A k \in DOMAIN a :
                      a[k] = (IF k \in DOMAIN c THEN c[k] ELSE <<>>)
                             \o (IF k \in FixedKeys THEN <<FixedValue(k)>> ELSE <<>>)

C6_Witness ==
    \E p \in Callers :
        /\ Finished(p, {"Get"})
        /\ op[p].args = <<("x" :> <<"1">>) @@ ("auth_token" :> <<"mine">>)>>
        /\ ~IsLogin(sent[p][Len(sent[p])])
        /\ sent[p][Len(sent[p])].args[1]["auth_token"] = <<"mine", "ffffff">>
        /\ sent[p][Len(sent[p])].args[1]["x"] = <<"1">>

\* C7: whenever GetCurrentUser, GetRides or GetRide returns a non-nil error,
\* the value beside it is empty: nil identity, nil ride list and count 0, nil
\* ride.  (Stated for the calls whose response bodies were read whole.)
C7_ErrorMeansEmptyValue ==
    \A p \in Callers :
        /\ Finished(p, {"GetCurrentUser", "GetRides", "GetRide"})
        /\ \A i \in 1..Len(recvd[p]) : recvd[p][i].readOK
        /\ IsErr(ret[p].err)
        =>  /\ ret[p].user = <<>>
            /\ ret[p].rides = <<>> /\ ret[p].count = 0
            /\ ret[p].ride = <<>>

\* C8: GetRide returns a non-nil Ride and a nil error exactly when the
\* resource request succeeds, the body decodes and its discriminator is
\* "trip"; in every other case it returns a nil Ride and a non-nil error.
C8_RideIffTrip ==
    \A p \in Callers :
        Finished(p, {"GetRide"}) =>
            LET n == Len(sent[p])
                good == /\ ~IsLogin(sent[p][n])
                        /\ ~TransportFailed(recvd[p][n])
                        /\ Decodes(recvd[p][n], {"type", "trip"})
                        /\ recvd[p][n].body.type = "trip"
            IN  IF good
                THEN /\ ret[p].ride = <<[ID |-> recvd[p][n].body.trip.id,
                                        Name |-> recvd[p][n].body.trip.name]>>
                     /\ ~IsErr(ret[p].err)
                ELSE ret[p].ride = <<>> /\ IsErr(ret[p].err)

C8_Witness ==
    \E p \in Callers :
        /\ Finished(p, {"GetRide"})
        /\ op[p].n = <<94>>
        /\ recvd[p][Len(recvd[p])].body = TripJSON
        /\ ret[p].ride # <<>> /\ ret[p].ride[1].ID = 94
        /\ ~IsErr(ret[p].err)

\* C9: a successful GetRides returns the count the server declared in
\* results_count and the server's results in the server's order.
C9_RidesAsServed ==
    \A p \in Callers :
        Finished(p, {"GetRides"}) /\ ~IsErr(ret[p].err) =>
            LET b == recvd[p][Len(recvd[p])].body IN
            /\ ret[p].count = b.results_count
            /\ Len(ret[p].rides) = Len(b.results)
            /\ \A i \in 1..Len(b.results) : ret[p].rides[i].ID = b.results[i].id

C9_Witness ==
    \E p \in Callers :
        /\ Finished(p, {"GetRides"})
        /\ op[p].n = <<1, 1, -1>>
        /\ ~IsErr(ret[p].err)
        /\ ret[p].count = 1273
        /\ Len(ret[p].rides) = 3
        /\ ret[p].rides[1].ID = 38045212 /\ ret[p].rides[3].ID = 37120067

\* C10: Client.Get returns an error exactly when the network call fails or
\* the status is not 200, the error of a non-200 answer carries the status
\* text, and on status 200 it returns the response body and a nil error.
C10_ClientGetResult ==
    \A p \in Callers :
        Finished(p, {"ClientGet"}) =>
            LET o == recvd[p][1] IN
            /\ IsErr(ret[p].err) <=> TransportFailed(o)
            /\ o.resp /\ o.StatusCode # 200 =>
                  \E i \in 1..Len(ret[p].err[1].detail) : ret[p].err[1].detail[i] = o.Status
            /\ ~TransportFailed(o) => ret[p].res = o.body /\ ~IsErr(ret[p].err)

\* the stored identity is there but incomplete: no token, or a token without
\* the id and name of its owner
TokenOnly(u) == u # <<>> /\ u[1].AuthToken # "" /\ u[1].ID = 0 /\ u[1].Name = ""

EmptyToken(u) == u # <<>> /\ u[1].AuthToken = ""

\* C12 (as claimed): a call through Get treats a partially populated identity
\* as not authenticated and logs in before the resource request, both when the
\* token is empty and when the token is there without id and name.
C12_PartialIdentityLogsIn ==
    \A p \in Callers :
        Finished(p, GetOps) /\ (EmptyToken(start[p]) \/ TokenOnly(start[p])) =>
            IsLogin(sent[p][1])

\* C12 (amended): an identity with an empty token is treated as not
\* authenticated and the call logs in before the resource request; an identity
\* that holds a token without id and name counts as authenticated: no login is
\* sent and the one request carries that token.
C12_OnlyTheTokenDecides ==
    \A p \in Callers :
        Finished(p, GetOps) =>
            /\ EmptyToken(start[p]) =>
                  /\ IsLogin(sent[p][1])
                  /\ \A i \in 2..Len(sent[p]) : ~IsLogin(sent[p][i])
            /\ TokenOnly(start[p]) =>
                  /\ Len(sent[p]) = 1 /\ ~IsLogin(sent[p][1])
                  /\ LET t == sent[p][1].args[1]["auth_token"] IN
                     t[Len(t)] = start[p][1].AuthToken

C12_Witness ==
    \E p \in Callers :
        /\ Finished(p, {"GetRide"})
        /\ EmptyToken(start[p])
        /\ start[p][1].ID = 1268590
        /\ Len(sent[p]) = 2 /\ IsLogin(sent[p][1]) /\ ~IsLogin(sent[p][2])

\* C13: once the session is Authenticated it is Authenticated after every
\* call of Auth, Get, GetCurrentUser, GetRides and GetRide, whatever the
\* server answers.
C13_StaysAuthenticated ==
    \A p \in Callers :
        Finished(p, {"Auth", "GetCurrentUser"} \cup GetOps) /\ Authenticated(start[p]) =>
            Authenticated(authUser)

\* the answer of a server that accepts what it was sent: 200 and a user
\* object with a token, read whole
AcceptedLogin(o) ==
    /\ ~TransportFailed(o)
    /\ Decodes(o, {"user", "user.id"})
    /\ o.body.user.auth_token # ""

\* C14: Auth on a session that holds a token the server accepts succeeds,
\* whatever the configured password, without sending the password, and the
\* session is Authenticated afterwards; Auth from Unauthenticated on a server
\* that accepts the email and password succeeds and stores an identity whose
\* id, name, token and gear list, in order, are those of the response.
C14_AuthStoresWhatTheServerSent ==
    \A p \in Callers :
        Finished(p, {"Auth"}) /\ AcceptedLogin(recvd[p][1]) =>
            LET u == recvd[p][1].body.user IN
            /\ ~IsErr(ret[p].err)
            /\ Authenticated(authUser)
            /\ Authenticated(start[p]) =>
                  /\ ~IsLogin(sent[p][1])
                  /\ "password" \notin DOMAIN sent[p][1].args[1]
                  /\ sent[p][1].args[1]["auth_token"] = <<start[p][1].AuthToken>>
            /\ Unauthenticated(start[p]) =>
                  /\ IsLogin(sent[p][1])
                  /\ sent[p][1].args[1]["email"] = <<config.Email>>
                  /\ sent[p][1].args[1]["password"] = <<config.Password>>
            /\ authUser[1].ID = u.id
            /\ authUser[1].Name = u.name
            /\ authUser[1].AuthToken = u.auth_token
            /\ Len(authUser[1].Gear) = Len(u.gear)
            /\ \A i \in 1..Len(u.gear) :
                  authUser[1].Gear[i].ID = u.gear[i].id /\ authUser[1].Gear[i].Name = u.gear[i].name

C14_Witness ==
    \E p \in Callers :
        /\ Finished(p, {"Auth"})
        /\ config.Password = "12345"
        /\ start[p] = <<[ZeroUser EXCEPT !.AuthToken = "beef1337"]>>
        /\ recvd[p][1].body = CurrentJSON /\ recvd[p][1].readOK
        /\ ~IsErr(ret[p].err)
        /\ authUser[1].AuthToken = "ffffff"
        /\ Len(authUser[1].Gear) = 2 /\ authUser[1].Gear[2].Name = "TCR"

\* C16: the stored identity is written only when Auth returns without error,
\* and then with the user Auth got; no step of a GetCurrentUser call writes
\* it, and no step of a GetRides or GetRide call that started Authenticated.
C16_OnlySuccessfulAuthWrites ==
    [][authUser' # authUser =>
        \E p \in Callers :
            /\ At(p, "Auth", "ret")
            /\ ~IsErr(ret[p].err)
            /\ authUser' = ret[p].user
            /\ op[p].name # "GetCurrentUser"
            /\ op[p].name \in {"GetRides", "GetRide"} => Unauthenticated(start[p])]_vars

C16_Witness ==
    \E p \in Callers :
        /\ Finished(p, {"GetRides"})
        /\ Authenticated(start[p])
        /\ start[p][1].ID = 1268590
        /\ IsErr(ret[p].err)
        /\ authUser = start[p]

\* C17: when the resource request of Get fails on an Authenticated session
\* (http.Get failed, or the status is not 200), Get returns the error of that
\* request and no result, the stored identity is the one it started with,
\* and that request is the only one made: no login, no second attempt.
C17_FailedRequestIsReturned ==
    \A p \in Callers :
        Finished(p, {"Get"}) /\ Authenticated(start[p]) /\ TransportFailed(recvd[p][1]) =>
            /\ Len(sent[p]) = 1
            /\ ~IsLogin(sent[p][1])
            /\ sent[p][1].base = op[p].base
            /\ IsErr(ret[p].err)
            /\ ret[p].err = ClientGetResult(op[p].base, recvd[p][1]).err
            /\ ret[p].err[1].ctx = "error in GET"
            /\ ret[p].res = EmptyStr
            /\ authUser = start[p]

C17_Witness ==
    \E p \in Callers :
        /\ Finished(p, {"Get"})
        /\ Authenticated(start[p])
        /\ recvd[p][1].StatusCode = 401
        /\ IsErr(ret[p].err)
        /\ authUser = start[p]

\* C18: GetCurrentUser on an Unauthenticated session sends the credential
\* form (email, password, apikey, version 2 and nothing else), on an
\* Authenticated session the token form (apikey, version 2, the stored
\* token and nothing else); no request that is under way while the session
\* is Authenticated carries the email or the password.
C18_CredentialFormOnlyWhenUnauthenticated ==
    /\ \A p \in Callers :
        Finished(p, {"GetCurrentUser"}) =>
            /\ Len(sent[p]) = 1
            /\ sent[p][1].base = CurrentUserPath
            /\ Unauthenticated(start[p]) =>
                  sent[p][1].args = <<("email" :> <<config.Email>>) @@ ("password" :> <<config.Password>>)
                                      @@ ("apikey" :> <<config.KeyName>>) @@ ("version" :> <<"2">>)>>
            /\ Authenticated(start[p]) =>
                  sent[p][1].args = <<("apikey" :> <<config.KeyName>>) @@ ("version" :> <<"2">>)
                                      @@ ("auth_token" :> <<start[p][1].AuthToken>>)>>
    /\ \A p \in Callers :
        At(p, "ClientGet", "wait") /\ Authenticated(authUser) =>
            LET req == sent[p][Len(sent[p])] IN
            req.args = <<>> \/ {"email", "password"} \cap DOMAIN req.args[1] = {}

C18_Witness ==
    \E p \in Callers :
        /\ Finished(p, {"GetCurrentUser"})
        /\ Authenticated(start[p])
        /\ ncalls[p] = 2
        /\ DOMAIN sent[p][1].args[1] = {"apikey", "version", "auth_token"}
        /\ sent[p][1].args[1]["auth_token"] = <<"ffffff">>
        /\ ~IsErr(ret[p].err)

\* C19: every error GetRide returns has GetRide's context in front and names
\* the ride id, and every error GetRides returns has GetRides' context in
\* front and names the offset, the limit and the user id, whatever failed
\* (looked at for the calls whose response bodies were all read whole).
C19_ErrorsCarryTheAccessorsContext ==
    \A p \in Callers :
        (\A i \in 1..Len(recvd[p]) : recvd[p][i].readOK) =>
        /\ Finished(p, {"GetRide"}) /\ IsErr(ret[p].err) =>
              /\ ret[p].err[1].ctx = "error getting ride id"
              /\ ret[p].err[1].detail = <<ToString(op[p].n[1])>>
        /\ Finished(p, {"GetRides"}) /\ IsErr(ret[p].err) =>
              /\ ret[p].err[1].ctx = "error getting rides"
              /\ ret[p].err[1].detail =
                    <<ToString(op[p].n[2]), ToString(op[p].n[3]), ToString(op[p].n[1])>>

\* C20: no step of any operation changes the Config of the session.
C20_ConfigNeverChanges == [][config' = config]_vars

C20_Witness ==
    \E p \in Callers :
        /\ Finished(p, {"GetRide"})
        /\ ncalls[p] = 2
        /\ Unauthenticated(start[p])
        /\ LoginCount(sent[p]) = 1
        /\ ~IsErr(ret[p].err)
        /\ config.Password = "12345"

AllReturned(names) ==
    \A p \in Callers : Finished(p, names) /\ Unauthenticated(start[p])

\* C15: when the concurrent calls through Get that started on an
\* Unauthenticated session have all returned, the login requests they sent
\* are at least one and at most one for each caller, and the stored identity
\* is the user of the response to one of those login requests.
C15_LoginsBetweenOneAndCallers ==
    AllReturned(GetOps) =>
        LET logins == {x \in Callers \X (1..4) :
                          x[2] <= Len(sent[x[1]]) /\ IsLogin(sent[x[1]][x[2]])}
        IN  /\ Cardinality(logins) >= 1
            /\ Cardinality(logins) <= Cardinality(Callers)
            /\ \A p \in Callers : Len(sent[p]) <= 4
            /\ authUser # <<>>
            /\ \E x \in logins :
                LET u == recvd[x[1]][x[2]].body.user IN
                /\ authUser[1].ID = u.id
                /\ authUser[1].Name = u.name
                /\ authUser[1].AuthToken = u.auth_token
                /\ Len(authUser[1].Gear) = Len(u.gear)

C15_Witness ==
    /\ AllReturned(GetOps)
    /\ \A p \in Callers : LoginCount(sent[p]) = 1 /\ ~IsErr(ret[p].err)
    /\ recvd["c1"][1].body.user.auth_token = "ffffff"
    /\ recvd["c2"][1].body.user.auth_token = "beef1337"
    /\ authUser[1].AuthToken = "beef1337"

Decimal(n) ==
    CASE n = -1 -> "-1"
      [] n = 0 -> "0"
      [] n = 1 -> "1"
      [] n = 2147483647 -> "2147483647"

\* C22: GetRides(user, offset, limit) makes its resource request on
\* /users/{user}/trips.json with offset and limit in decimal as they were
\* passed, zero, negative and very large values included, in the parameter
\* set and in the query of the URL; an Authenticated session sends that
\* request for every input.
C22_OffsetAndLimitVerbatim ==
    \A p \in Callers :
        Finished(p, {"GetRides"}) =>
            LET n == Len(sent[p])
                req == sent[p][n]
                q == req.uri.query
            IN  /\ Authenticated(start[p]) => n = 1 /\ ~IsLogin(req)
                /\ ~IsLogin(req) =>
                      /\ req.base = <<"/users/", Decimal(op[p].n[1]), "/trips.json">>
                      /\ req.args[1]["offset"] = <<Decimal(op[p].n[2])>>
                      /\ req.args[1]["limit"] = <<Decimal(op[p].n[3])>>
                      /\ \E i \in 2..Len(q) : q[i] = <<"offset", Decimal(op[p].n[2])>>
                      /\ \E i \in 2..Len(q) : q[i] = <<"limit", Decimal(op[p].n[3])>>

C22_Witness ==
    \E p \in Callers :
        /\ Finished(p, {"GetRides"})
        /\ op[p].n = <<1, 1, -1>>
        /\ Len(sent[p]) = 1 /\ ~IsLogin(sent[p][1])
        /\ sent[p][1].args[1]["limit"] = <<"-1">>
        /\ sent[p][1].uri.query[4] = <<"limit", "-1">>

\* C23: every request goes to the base followed by the path, or to the path
\* alone when the base is empty; a nil or empty parameter set adds nothing
\* to it, any other adds "?" and the encoded parameters: one key=value pair
\* for each value, the keys in increasing order and the values of a key in
\* their order.
C23_URLIsBasePathQuery ==
    \A p \in Callers : \A i \in 1..Len(sent[p]) :
        LET req == sent[p][i]
            q == req.uri.query
        IN  /\ req.uri.path = IF client.server = "" THEN req.base
                              ELSE <<client.server>> \o req.base
            /\ IF req.args = <<>> \/ DOMAIN req.args[1] = {}
               THEN q = <<>>
               ELSE LET m == req.args[1]
                        values == {x \in (DOMAIN m) \X (1..8) : x[2] <= Len(m[x[1]])}
                    IN  /\ q[1] = "?"
                        /\ Len(q) = 1 + Cardinality(values)
                        /\ \A k \in DOMAIN m : Len(m[k]) <= 8
                        /\ \A x \in values :
                              \E j \in 2..Len(q) :
                                  /\ q[j] = <<QueryEscape(x[1]), QueryEscape(m[x[1]][x[2]])>>
                                  /\ x[2] > 1 =>
                                        /\ j > 2
                                        /\ q[j - 1] = <<QueryEscape(x[1]), QueryEscape(m[x[1]][x[2] - 1])>>
                        /\ \A j \in 2..(Len(q) - 1) :
                              \E a, b \in 1..Len(KeyOrder) :
                                  /\ a <= b
                                  /\ q[j][1] = QueryEscape(KeyOrder[a])
                                  /\ q[j + 1][1] = QueryEscape(KeyOrder[b])

C23_Witness ==
    \E p \in Callers :
        /\ Finished(p, {"ClientGet"})
        /\ client.server = ""
        /\ op[p].args = <<("x" :> <<"1">>) @@ ("auth_token" :> <<"mine">>)>>
        /\ sent[p][1].uri = [path |-> <<"/path">>,
                             query |-> <<"?", <<"auth_token", "mine">>, <<"x", "1">>>>]

\* C24: every request that RWGPS.Get hands to Client.Get carries an
\* auth_token parameter whose value, the stored token, is not empty,
\* whatever the server answered to the login.
C24_ResourceRequestsCarryAToken ==
    \A p \in Callers :
        op[p].name \in {"Auth", "GetCurrentUser"} \cup GetOps =>
            \A i \in 1..Len(sent[p]) :
                ~IsLogin(sent[p][i]) =>
                    /\ "auth_token" \in DOMAIN sent[p][i].args[1]
                    /\ LET t == sent[p][i].args[1]["auth_token"] IN t[Len(t)] # ""

\* C25: whenever a Get is about to read r.authUser.AuthToken the stored
\* identity is not nil, no goroutine has died of the nil dereference, and no
\* step sets a stored identity back to nil, under every interleaving of
\* Auth and Get calls and whatever the server answers.
C25_NoNilDereference ==
    /\ \A p \in Callers : At(p, "Get", "args") => authUser # <<>>
    /\ \A p \in Callers : ~ret[p].panic
    /\ \A p \in Callers : Running(p) /\ start[p] # <<>> => authUser # <<>>

\* a caller that started without an identity reads the token another
\* caller's login has stored, before it has sent anything itself
C25_Witness ==
    /\ At("c1", "Get", "args")
    /\ start["c1"] = <<>>
    /\ sent["c1"] = <<>>
    /\ Running("c2")
    /\ authUser # <<>>

\* C26: after a Get that was given a parameter set and whose login step did
\* not fail, the caller's set holds what it held before with apikey, version
\* and auth_token appended once more, so a set passed to k calls holds k
\* copies of each; after a Get whose login step failed the caller's set is
\* as it was passed.
C26_CallersSetGrowsInPlace ==
    \A p \in Callers :
        Finished(p, {"Get"}) /\ op[p].args # <<>> =>
            LET c == op[p].args[1]
                last == sent[p][Len(sent[p])]
            IN  IF IsLogin(last)
                THEN callerArgs[p] = c
                ELSE /\ callerArgs[p] = last.args[1]
                     /\ DOMAIN callerArgs[p] = DOMAIN c \cup FixedKeys
                     /\ \A k \in DOMAIN callerArgs[p] :
                           callerArgs[p][k] =
                               (IF k \in DOMAIN c THEN c[k] ELSE <<>>)
                               \o (IF k \in FixedKeys THEN <<FixedValue(k)>> ELSE <<>>)

\* the same set passed to a second call
C26_Witness ==
    \E p \in Callers :
        /\ Finished(p, {"Get"})
        /\ ncalls[p] = 2
        /\ op[p].args # <<>>
        /\ DOMAIN callerArgs[p] = {"x"} \cup FixedKeys
        /\ callerArgs[p]["x"] = <<"1">>
        /\ callerArgs[p]["apikey"] = <<"test key", "test key">>
        /\ callerArgs[p]["version"] = <<"2", "2">>
        /\ callerArgs[p]["auth_token"] = <<"mine", "beef1337", "beef1337">>

====
